---- MODULE Spec2Model ----
(***************************************************************************)
(* The process supervisor of the WazapSuite desktop launcher: the          *)
(* ServerManager (src/main/server-manager.ts), the TunnelManager           *)
(* (tunnel-manager.ts), the IPC handlers that call them (ipc.ts) and the   *)
(* before-quit handler of the main process (main.ts).                      *)
(*                                                                         *)
(* The main process is one JavaScript event loop.  One action of the model *)
(* is one callback run to its end (an IPC handler, a child-process event,  *)
(* a timer) or one segment of an async function between two awaits.  The   *)
(* continuation of an await on an already settled promise is a microtask:  *)
(* it runs before any other callback, which the guard Quiet states.        *)
(***************************************************************************)
EXTENDS Integers, Sequences, FiniteSets, TLC

(* Bounds of the model. *)
MaxCalls == 3
MaxQuits == 1
MaxRestarts == 1

(* Program constants. *)
DefaultPort == 4000
AppVersion == 2
MinPort == 1
MaxPort == 65535

Managers == {"server", "tunnel"}

NoProcess == 0
NoUrl == "null"

VARIABLES
    status,       \* status[m]: the manager's status field
    process,      \* process[m]: serverProcess / tunnelProcess (NoProcess = null)
    port,         \* ServerManager.port
    tunnelUrl,    \* TunnelManager.tunnelUrl
    startPc,      \* where ServerManager.start() is suspended at an await
    procs,        \* procs[m]: the child processes the manager has spawned
    stops,        \* stops[m]: the stop() calls that created a promise
    configStore,  \* the persisted configuration
    fs,           \* the files the managers look at
    isQuitting,   \* main.ts isQuitting
    appQuit,      \* a before-quit went through without preventDefault
    quits,        \* the before-quit handlers suspended at an await
    restarts,     \* the server:restart handlers and where each of them is
    last          \* the callback that ran last (op, on manager m, for the process
                  \* or the stop() numbered id) and the events it emitted

vars == <<status, process, port, tunnelUrl, startPc, procs, stops,
          configStore, fs, isQuitting, appQuit, quits, restarts, last>>

(***************************************************************************)
(* The state as one record, so that a callback is a function on it.  ev    *)
(* collects the events the callback emits, raised says that it ended by    *)
(* throwing (a rejected promise for its caller), ret is what a stop()      *)
(* call returned (the index of its promise, 0 if it returned at once).     *)
(***************************************************************************)
World ==
    [status |-> status, process |-> process, port |-> port,
     tunnelUrl |-> tunnelUrl, startPc |-> startPc, procs |-> procs,
     stops |-> stops, configStore |-> configStore, fs |-> fs,
     isQuitting |-> isQuitting, appQuit |-> appQuit, quits |-> quits,
     restarts |-> restarts,
     ev |-> <<>>, raised |-> FALSE, ret |-> 0]

(* The end of the timer callback of server:restart: when the start() it   *)
(* awaits has returned, resolve() runs in the same turn of the event loop; *)
(* when start() has thrown, the callback ends there and resolve() is never *)
(* called.                                                                 *)
RestartSettle(w) ==
    [i \in DOMAIN w.restarts |->
        IF w.restarts[i].pc = "start" /\ w.startPc = "none"
        THEN [w.restarts[i] EXCEPT !.pc = IF w.raised THEN "failed" ELSE "done"]
        ELSE w.restarts[i]]

Commit(w, op, m, id) ==
    /\ status' = w.status
    /\ process' = w.process
    /\ port' = w.port
    /\ tunnelUrl' = w.tunnelUrl
    /\ startPc' = w.startPc
    /\ procs' = w.procs
    /\ stops' = w.stops
    /\ configStore' = w.configStore
    /\ fs' = w.fs
    /\ isQuitting' = w.isQuitting
    /\ appQuit' = w.appQuit
    /\ quits' = w.quits
    /\ restarts' = RestartSettle(w)
    /\ last' = [op |-> op, m |-> m, id |-> id, ev |-> w.ev, raised |-> w.raised]

Emit(w, e) == [w EXCEPT !.ev = Append(@, e)]

Log(text) == <<"log", text>>

StatusChange(s) == <<"status-change", s>>

UrlChange(u) == <<"url-change", u>>

(* The start() calls that spawned a process and the stop() calls that     *)
(* found one, of both managers together.                                   *)
Calls(w) ==
    Len(w.procs["server"]) + Len(w.procs["tunnel"])
    + Len(w.stops["server"]) + Len(w.stops["tunnel"])

(* A child process as the event loop sees it.  A launched one is "alive",  *)
(* then "exited" ('exit' delivered), then "closed" ('close' delivered).    *)
(* One the OS could not launch is "failed", then "errored" ('error'        *)
(* delivered), then possibly "gone" ('close' delivered).                   *)
NewProc(ok) == [phase |-> IF ok THEN "alive" ELSE "failed", killed |-> FALSE]

(* A stop() call that created its promise: the process it put its 'exit'   *)
(* listener on, its timer ("pending", "cancelled" by clearTimeout, or      *)
(* "fired"), what resolved the promise first ("no", "exit", "timeout") and *)
(* the process its timer callback sent SIGKILL to.                         *)
NewStop(p) ==
    [target |-> p, timer |-> "pending", done |-> "no", killed |-> NoProcess]

(* resolve() of the promise of a stop(): only the first call counts. *)
Resolve(st, how) == [st EXCEPT !.done = IF @ = "no" THEN how ELSE @]

Resolved(st) == st.done # "no"

(***************************************************************************)
(* ServerManager (src/main/server-manager.ts)                              *)
(***************************************************************************)
ServerSetStatus(w, s) ==
    Emit(Emit([w EXCEPT !.status["server"] = s], StatusChange(s)),
         <<"log", "Status changed to: ", s>>)

(* configStore.get('serverPort') || 4000 *)
ConfiguredPort(w) ==
    IF w.configStore.serverPort = 0 THEN DefaultPort ELSE w.configStore.serverPort

(* start() with a guard that forgets 'starting'. *)
ServerStartRunningOnly(w) ==
    IF w.status["server"] = "running"
    THEN Emit(w, Log("Server start requested but already running/starting."))
    ELSE Emit([w EXCEPT !.port = ConfiguredPort(w), !.startPc = "extract"],
              Log("Starting initialization sequence..."))

(* start() with a guard that refuses 'error' as well. *)
ServerStartRefusesError(w) ==
    IF w.status["server"] \in {"running", "starting", "error"}
    THEN Emit(w, Log("Server start requested but already running/starting."))
    ELSE Emit([w EXCEPT !.port = ConfiguredPort(w), !.startPc = "extract"],
              Log("Starting initialization sequence..."))

(* start(), up to its first await; the call of extractServerIfNeeded is   *)
(* the next segment.                                                       *)
ServerStart(w) ==
    IF w.status["server"] \in {"running", "starting"}
    THEN Emit(w, Log("Server start requested but already running/starting."))
    ELSE Emit([w EXCEPT !.port = ConfiguredPort(w), !.startPc = "extract"],
              Log("Starting initialization sequence..."))

(* The catch block without setStatus('error'). *)
ServerStartCatchKeepsStatus(w) ==
    [Emit(w, Log("CRITICAL ERROR")) EXCEPT !.raised = TRUE, !.startPc = "none"]

(* The catch block of start(): the manager has no 'error' listener, so     *)
(* emit('error', error) throws and the promise of start() rejects.         *)
ServerStartCatch(w) ==
    [ServerSetStatus(Emit(w, Log("CRITICAL ERROR")), "error")
        EXCEPT !.raised = TRUE, !.startPc = "none"]

(* needsExtraction without the test for the cloudflared executable. *)
NeedsExtractionIgnoresTunnelBinary(w) ==
    \/ w.fs.exe = 0
    \/ AppVersion # w.configStore.serverVersion

NeedsExtraction(w) ==
    \/ w.fs.exe = 0
    \/ w.fs.cloudflared = 0
    \/ AppVersion # w.configStore.serverVersion

(* The files of the archive the managers look at, in the order of the      *)
(* archive's entries.                                                      *)
ArchiveOrder == <<"cloudflared", "initialDb", "exe">>

ArchivePos(f) == CHOOSE i \in 1..Len(ArchiveOrder) : ArchiveOrder[i] = f

InZip(w, f) ==
    CASE f = "exe" -> w.fs.zipExe
      [] f = "cloudflared" -> w.fs.zipCloudflared
      [] f = "initialDb" -> w.fs.zipInitialDb

(* What rmSync, mkdirSync and extractAllTo(target, overwrite) leave in the *)
(* directory when extractAllTo wrote the first `written` entries: a file   *)
(* it wrote has the archive's version, a file that rmSync could not delete *)
(* and extractAllTo did not write stays as it was.                         *)
Extracted(w, rmOk, written, f) ==
    IF InZip(w, f) /\ ArchivePos(f) <= written THEN AppVersion
    ELSE IF rmOk THEN 0 ELSE w.fs[f]

(* extractServerIfNeeded deleting the old directory before it looks for   *)
(* the archive.                                                            *)
ExtractServerIfNeededCleansFirst(w, rmOk, unzipOk, written) ==
    LET w0 == Emit(w, Log("Checking server resources..."))
    IN  IF NeedsExtraction(w0)
        THEN LET w1 == ServerSetStatus(
                           Emit(w0, Log("Extracting server resources...")),
                           "extracting")
                 w2 == [w1 EXCEPT !.fs.dir = FALSE, !.fs.exe = 0,
                                  !.fs.cloudflared = 0, !.fs.initialDb = 0]
             IN  IF ~w1.fs.zip
                 THEN [w2 EXCEPT !.raised = TRUE]
                 ELSE Emit([w2 EXCEPT
                               !.fs.dir = TRUE,
                               !.fs.exe = Extracted(w2, TRUE, written, "exe"),
                               !.fs.cloudflared =
                                   Extracted(w2, TRUE, written, "cloudflared"),
                               !.fs.initialDb =
                                   Extracted(w2, TRUE, written, "initialDb"),
                               !.configStore.serverVersion = AppVersion],
                           Log("Extraction complete."))
        ELSE Emit(w0, Log("Server resources are up to date."))

(* extractServerIfNeeded(): rmOk says whether rmSync deletes the old       *)
(* directory, unzipOk whether extractAllTo returns; when it throws it has  *)
(* written the first `written` entries.                                    *)
ExtractServerIfNeeded(w, rmOk, unzipOk, written) ==
    LET w0 == Emit(w, Log("Checking server resources..."))
    IN  IF NeedsExtraction(w0)
        THEN LET w1 == ServerSetStatus(
                           Emit(w0, Log("Extracting server resources...")),
                           "extracting")
             IN  IF ~w1.fs.zip
                 THEN [w1 EXCEPT !.raised = TRUE]
                 ELSE LET w2 == IF w1.fs.dir
                                THEN Emit(w1, Log("Cleaning up old server files..."))
                                ELSE w1
                          w3 == IF w1.fs.dir /\ ~rmOk
                                THEN Emit(w2, Log("Warning: Failed to clean old files"))
                                ELSE w2
                          w4 == Emit([w3 EXCEPT
                                   !.fs.dir = TRUE,
                                   !.fs.exe = Extracted(w1, rmOk, written, "exe"),
                                   !.fs.cloudflared =
                                       Extracted(w1, rmOk, written, "cloudflared"),
                                   !.fs.initialDb =
                                       Extracted(w1, rmOk, written, "initialDb")],
                                   Log("Unzipping archive..."))
                      IN  IF ~unzipOk
                          THEN [w4 EXCEPT !.raised = TRUE]
                          ELSE Emit([w4 EXCEPT !.configStore.serverVersion = AppVersion],
                                    Log("Extraction complete."))
        ELSE Emit(w0, Log("Server resources are up to date."))

(* ensureDatabase() that logs a failed open and goes on. *)
EnsureDatabaseSwallowsOpenFailure(w, openOk) ==
    LET w0 == Emit(ServerSetStatus(w, "migrating"),
                   Log("Checking database integrity..."))
    IN  Emit(w0, Log("Verifying database connection..."))

(* ensureDatabase() that copies the template whenever there is one. *)
EnsureDatabaseAlwaysCopies(w, openOk) ==
    LET w0 == Emit(ServerSetStatus(w, "migrating"),
                   Log("Checking database integrity..."))
        w1 == IF w0.fs.initialDb # 0
              THEN [Emit(w0, Log("Creating new database from template..."))
                       EXCEPT !.fs.dataDb = "template"]
              ELSE w0
        w2 == Emit(w1, Log("Verifying database connection..."))
    IN  IF w2.fs.dataDb = "corrupt" \/ ~openOk
        THEN [w2 EXCEPT !.raised = TRUE]
        ELSE Emit([w2 EXCEPT !.fs.dataDb = IF @ = "absent" THEN "empty" ELSE @],
                  Log("Database check passed."))

(* ensureDatabase(): data.db is "absent", "corrupt", "ok" (the data of     *)
(* earlier runs), "template" (a copy of initial.db) or "empty" (created by *)
(* new Database, which creates an absent file and throws on one it cannot  *)
(* open: openOk).                                                          *)
EnsureDatabase(w, openOk) ==
    LET w0 == Emit(ServerSetStatus(w, "migrating"),
                   Log("Checking database integrity..."))
        w1 == IF w0.fs.dataDb = "absent"
              THEN IF w0.fs.initialDb # 0
                   THEN [Emit(w0, Log("Creating new database from template..."))
                            EXCEPT !.fs.dataDb = "template"]
                   ELSE Emit(w0, Log("Warning: Initial database template not found."))
              ELSE w0
        w2 == Emit(w1, Log("Verifying database connection..."))
    IN  IF w2.fs.dataDb = "corrupt" \/ ~openOk
        THEN [w2 EXCEPT !.raised = TRUE]
        ELSE Emit([w2 EXCEPT !.fs.dataDb = IF @ = "absent" THEN "empty" ELSE @],
                  Log("Database check passed."))

(* The child of spawnServer(): its environment has PORT = this.port. *)
ServerProc(ok, p) ==
    [phase |-> NewProc(ok).phase, killed |-> NewProc(ok).killed, PORT |-> p]

(* spawnServer(): ok says whether the OS launches the executable; when it  *)
(* does not, the child emits 'error' on the next tick.                     *)
SpawnServer(w, ok) ==
    LET w0 == ServerSetStatus(w, "starting")
    IN  IF w0.fs.exe = 0
        THEN [w0 EXCEPT !.raised = TRUE]
        ELSE [w0 EXCEPT !.procs["server"] = Append(@, ServerProc(ok, w0.port)),
                        !.process["server"] = Len(w0.procs["server"]) + 1]

(* One segment of start() after an await: what it called threw, and the    *)
(* catch block runs, or start() goes on to the next call.                  *)
ServerStartSegment(r, next) ==
    IF r.raised THEN ServerStartCatch(r) ELSE [r EXCEPT !.startPc = next]

(* The lines the service may print, as the two things the stdout handler   *)
(* looks for: the text, and the port number that follows it.               *)
ServerLines ==
    {[text |-> "Nest application successfully started", n |-> 0],
     [text |-> "listening on port", n |-> 4000],
     [text |-> "listening on port", n |-> 4001],
     [text |-> "other", n |-> 0]}

ServerReady(msg, p) ==
    \/ msg.text = "Nest application successfully started"
    \/ msg.text = "listening on port" /\ msg.n = p

(* The stdout handler with a ready signal that ignores the port number. *)
ServerOnStdoutAnyPort(w, msg) ==
    LET w0 == Emit(w, <<"log", "[SERVER]", msg>>)
    IN  IF msg.text # "other" THEN ServerSetStatus(w0, "running") ELSE w0

(* The stdout handler with a ready signal that reads the configured port. *)
ServerOnStdoutConfiguredPort(w, msg) ==
    LET w0 == Emit(w, <<"log", "[SERVER]", msg>>)
    IN  IF ServerReady(msg, ConfiguredPort(w0))
        THEN ServerSetStatus(w0, "running")
        ELSE w0

(* serverProcess.stdout.on('data') *)
ServerOnStdout(w, msg) ==
    LET w0 == Emit(w, <<"log", "[SERVER]", msg>>)
    IN  IF ServerReady(msg, w0.port) THEN ServerSetStatus(w0, "running") ELSE w0

(* serverProcess.on('error'): emit('error') has no listener and throws out *)
(* of the handler, after the status was set.                               *)
ServerOnError(w) == ServerSetStatus(w, "error")

(* The 'close' handler that reports an exit it did not ask for as error. *)
ServerOnCloseSetsError(w) ==
    LET w1 == IF w.status["server"] # "stopping"
              THEN ServerSetStatus(w, "error")
              ELSE w
    IN  [w1 EXCEPT !.process["server"] = NoProcess]

(* serverProcess.on('close') *)
ServerOnClose(w) ==
    LET w1 == IF w.status["server"] # "stopping"
              THEN ServerSetStatus(w, "idle")
              ELSE w
    IN  [w1 EXCEPT !.process["server"] = NoProcess]

(* kill('SIGKILL') on a child: a signal is sent only to a running one. *)
Kill(w, m, p) ==
    IF w.procs[m][p].phase = "alive"
    THEN [w EXCEPT !.procs[m][p].killed = TRUE]
    ELSE w

(* stop(): the synchronous part, which ends by sending SIGTERM. *)
ServerStop(w) ==
    IF w.process["server"] = NoProcess
    THEN [w EXCEPT !.ret = 0]
    ELSE LET w0 == Emit(ServerSetStatus(w, "stopping"),
                        Log("Stopping server process..."))
         IN  [w0 EXCEPT !.stops["server"] = Append(@, NewStop(w0.process["server"])),
                        !.ret = Len(w0.stops["server"]) + 1]

(* The setTimeout callback of the k-th stop(). *)
ServerStopTimeout(w, k) ==
    LET w0 == [w EXCEPT !.stops["server"][k].timer = "fired"]
        p == w0.process["server"]
    IN  IF p # NoProcess
        THEN LET w1 == Kill(Emit(w0, Log("Server unresponsive, force killing...")),
                            "server", p)
                 w2 == [w1 EXCEPT !.process["server"] = NoProcess]
                 w3 == ServerSetStatus(w2, "idle")
             IN  [w3 EXCEPT !.stops["server"][k] = [Resolve(@, "timeout") EXCEPT !.killed = p]]
        ELSE w0

(* The 'exit' listener without its clearTimeout(timeout). *)
ServerStopOnExitKeepsTimer(w, k) ==
    LET w0 == [w EXCEPT !.process["server"] = NoProcess]
        w1 == ServerSetStatus(Emit(w0, Log("Server stopped gracefully.")), "idle")
    IN  [w1 EXCEPT !.stops["server"][k] = Resolve(@, "exit")]

(* The 'exit' listener the k-th stop() put on its process. *)
ServerStopOnExit(w, k) ==
    LET w0 == [w EXCEPT !.stops["server"][k].timer =
                            IF @ = "pending" THEN "cancelled" ELSE @,
                        !.process["server"] = NoProcess]
        w1 == ServerSetStatus(Emit(w0, Log("Server stopped gracefully.")), "idle")
    IN  [w1 EXCEPT !.stops["server"][k] = Resolve(@, "exit")]

(***************************************************************************)
(* TunnelManager (tunnel-manager.ts)                                       *)
(***************************************************************************)
TunnelSetStatus(w, s) ==
    Emit([w EXCEPT !.status["tunnel"] = s], StatusChange(s))

(* The URLs of the model, with the parts the code's patterns look at. *)
Urls ==
    {[text |-> "https://abc-def-123.trycloudflare.com", scheme |-> "https",
      label |-> "abc-def-123", domain |-> "trycloudflare.com"],
     [text |-> "https://xyz-9.trycloudflare.com", scheme |-> "https",
      label |-> "xyz-9", domain |-> "trycloudflare.com"],
     [text |-> "https://api.trycloudflare.com", scheme |-> "https",
      label |-> "api", domain |-> "trycloudflare.com"],
     [text |-> "https://tunnel.example.com", scheme |-> "https",
      label |-> "tunnel", domain |-> "example.com"]}

(* A line of cloudflared's output: a sequence of words and URLs. *)
Word(t) == [kind |-> "word", text |-> t]

UrlToken(t) == [kind |-> "url", text |-> t]

TunnelLines ==
    {<<Word("INF"), UrlToken("https://abc-def-123.trycloudflare.com")>>,
     <<Word("Connection"), Word("registered")>>,
     <<Word("failed")>>,
     <<Word("failed"), UrlToken("https://api.trycloudflare.com")>>,
     <<Word("INF")>>}

(* msg.includes(t) *)
Includes(msg, t) ==
    \E i \in 1..Len(msg) : msg[i].kind = "word" /\ msg[i].text = t

(* /https:\/\/[a-z0-9-]+\.trycloudflare\.com/i on one URL *)
IsQuickTunnelUrl(t) ==
    \E u \in Urls : /\ u.text = t
                    /\ u.scheme = "https"
                    /\ u.label # ""
                    /\ u.domain = "trycloudflare.com"

(* msg.match(...): the indices of the tokens the pattern matches *)
QuickTunnelMatches(msg) ==
    {i \in 1..Len(msg) : msg[i].kind = "url" /\ IsQuickTunnelUrl(msg[i].text)}

(* quickTunnelMatch[0]: the first match *)
QuickTunnelMatch(msg) ==
    LET I == QuickTunnelMatches(msg)
    IN  msg[CHOOSE i \in I : \A j \in I : i <= j].text

(* savedUrl.includes('trycloudflare') *)
IncludesTrycloudflare(t) ==
    \E u \in Urls : u.text = t /\ u.domain = "trycloudflare.com"

ParseTunnelOutput(w, msg) ==
    LET w1 == IF QuickTunnelMatches(msg) # {}
              THEN LET u == QuickTunnelMatch(msg)
                       a == [w EXCEPT !.tunnelUrl = u]
                       b == Emit(Emit(a, Log("Tunnel URL")), UrlChange(u))
                       c == [b EXCEPT !.configStore.tunnelUrl = u]
                   IN  TunnelSetStatus(c, "running")
              ELSE w
        w2 == IF Includes(msg, "Connection") /\ Includes(msg, "registered")
              THEN LET savedUrl == w1.configStore.tunnelUrl
                       a == IF savedUrl # NoUrl /\ ~IncludesTrycloudflare(savedUrl)
                            THEN Emit([w1 EXCEPT !.tunnelUrl = savedUrl],
                                      UrlChange(savedUrl))
                            ELSE w1
                   IN  TunnelSetStatus(a, "running")
              ELSE w1
    IN  IF (Includes(msg, "failed") \/ Includes(msg, "error"))
           /\ w2.tunnelUrl = NoUrl
        THEN TunnelSetStatus(w2, "error")
        ELSE w2

(* tunnelProcess.stdout.on('data') and stderr.on('data') *)
TunnelOnData(w, msg) == ParseTunnelOutput(Emit(w, <<"log", "[Tunnel]", msg>>), msg)

(* start(port): ok says whether the OS launches cloudflared *)
(* configStore.get('tunneling')?.tunnelToken: none, or the token of a     *)
(* named tunnel.                                                           *)
TunnelTokens == {"", "token"}

(* `http://localhost:${port}` *)
LocalUrl(n) == [scheme |-> "http", host |-> "localhost", port |-> n]

(* Arguments that are those of a quick tunnel whatever the token. *)
TunnelArgsQuickOnly(token, n) == <<"tunnel", "--url", LocalUrl(n)>>

(* The arguments start(port) gives cloudflared. *)
TunnelArgs(token, n) ==
    IF token # ""
    THEN <<"tunnel", "run", "--token", token>>
    ELSE <<"tunnel", "--url", LocalUrl(n)>>

(* The child of TunnelManager.start(): spawn(cloudflaredPath, args). *)
TunnelProc(ok, args) ==
    [phase |-> NewProc(ok).phase, killed |-> NewProc(ok).killed, args |-> args]

TunnelStart(w, n, ok) ==
    IF w.status["tunnel"] \in {"running", "starting"}
    THEN Emit(w, Log("Tunnel already running or starting."))
    ELSE IF w.fs.cloudflared = 0
         THEN [TunnelSetStatus(
                   Emit(Emit(w, Log("ERROR: cloudflared executable not found.")),
                        Log("Please ensure cloudflared.exe is bundled with the application.")),
                   "error")
                 EXCEPT !.raised = TRUE]
         ELSE LET w0 == Emit(TunnelSetStatus(w, "starting"),
                             Log("Starting Cloudflare Tunnel..."))
                  w1 == IF w0.configStore.tunnelToken # ""
                        THEN Emit(w0, Log("Using named tunnel with token..."))
                        ELSE Emit(w0, Log("Using quick tunnel (trycloudflare.com)..."))
              IN  [w1 EXCEPT !.procs["tunnel"] =
                                 Append(@, TunnelProc(ok,
                                               TunnelArgs(w0.configStore.tunnelToken, n))),
                             !.process["tunnel"] = Len(w1.procs["tunnel"]) + 1]

(* tunnelProcess.on('error'): emit('error') has no listener and throws *)
TunnelOnError(w) == TunnelSetStatus(Emit(w, Log("Tunnel error")), "error")

(* tunnelProcess.on('close') *)
TunnelOnClose(w) ==
    LET w0 == [w EXCEPT !.tunnelUrl = NoUrl]
        w1 == Emit(w0, UrlChange(NoUrl))
        w2 == IF w1.status["tunnel"] # "stopping"
              THEN TunnelSetStatus(w1, "idle")
              ELSE w1
    IN  [w2 EXCEPT !.process["tunnel"] = NoProcess]

(* stop() that announces the stop before it looks at the handle. *)
TunnelStopAnnouncesFirst(w) ==
    LET w0 == Emit(TunnelSetStatus(w, "stopping"), Log("Stopping tunnel..."))
    IN  IF w.process["tunnel"] = NoProcess
        THEN [w0 EXCEPT !.ret = 0]
        ELSE [w0 EXCEPT !.stops["tunnel"] = Append(@, NewStop(w0.process["tunnel"])),
                        !.ret = Len(w0.stops["tunnel"]) + 1]

(* stop(): the synchronous part, which ends by sending SIGTERM. *)
TunnelStop(w) ==
    IF w.process["tunnel"] = NoProcess
    THEN [w EXCEPT !.ret = 0]
    ELSE LET w0 == Emit(TunnelSetStatus(w, "stopping"), Log("Stopping tunnel..."))
         IN  [w0 EXCEPT !.stops["tunnel"] = Append(@, NewStop(w0.process["tunnel"])),
                        !.ret = Len(w0.stops["tunnel"]) + 1]

(* The setTimeout callback of the k-th stop(). *)
TunnelStopTimeout(w, k) ==
    LET w0 == [w EXCEPT !.stops["tunnel"][k].timer = "fired"]
        p == w0.process["tunnel"]
    IN  IF p # NoProcess
        THEN LET w1 == Kill(Emit(w0, Log("Force killing tunnel process...")),
                            "tunnel", p)
                 w2 == [w1 EXCEPT !.process["tunnel"] = NoProcess,
                                  !.tunnelUrl = NoUrl]
                 w3 == TunnelSetStatus(Emit(w2, UrlChange(NoUrl)), "idle")
             IN  [w3 EXCEPT !.stops["tunnel"][k] = [Resolve(@, "timeout") EXCEPT !.killed = p]]
        ELSE w0

(* The 'exit' listener the k-th stop() put on its process. *)
TunnelStopOnExit(w, k) ==
    LET w0 == [w EXCEPT !.stops["tunnel"][k].timer =
                            IF @ = "pending" THEN "cancelled" ELSE @,
                        !.process["tunnel"] = NoProcess,
                        !.tunnelUrl = NoUrl]
        w1 == TunnelSetStatus(
                  Emit(Emit(w0, UrlChange(NoUrl)), Log("Tunnel stopped.")), "idle")
    IN  [w1 EXCEPT !.stops["tunnel"][k] = Resolve(@, "exit")]

(***************************************************************************)
(* The before-quit handler (main.ts)                                       *)
(***************************************************************************)
ServerActive == {"running", "starting", "extracting", "migrating"}

TunnelActive == {"running", "starting"}

(* finally: isQuitting = true; app.quit() emits before-quit again, whose   *)
(* handler returns at once without preventDefault, and the app quits.      *)
QuitFinally(w) == [w EXCEPT !.isQuitting = TRUE, !.appQuit = TRUE]

(* The handler i waits for the k-th stop() of manager m. *)
QuitAwait(w, i, m, k, serverStatus) ==
    LET h == [pc |-> m, k |-> k, serverStatus |-> serverStatus]
    IN  [w EXCEPT !.quits = IF i > Len(@) THEN Append(@, h) ELSE [@ EXCEPT ![i] = h]]

(* "Then stop server", with the status read when the handler began. *)
QuitStopServer(w, i, serverStatus) ==
    IF serverStatus \in ServerActive
    THEN LET r == ServerStop(w)
         IN  IF r.ret = 0 THEN QuitFinally(r)
             ELSE QuitAwait(r, i, "server", r.ret, serverStatus)
    ELSE QuitFinally(w)

(* "Stop tunnel first" *)
QuitStopTunnel(w, i, serverStatus, tunnelStatus) ==
    IF tunnelStatus \in TunnelActive
    THEN LET r == TunnelStop(w)
         IN  IF r.ret = 0 THEN QuitStopServer(r, i, serverStatus)
             ELSE QuitAwait(r, i, "tunnel", r.ret, serverStatus)
    ELSE QuitStopServer(w, i, serverStatus)

(* app.on('before-quit'), up to its first await *)
BeforeQuitHandler(w) ==
    IF w.isQuitting
    THEN [w EXCEPT !.appQuit = TRUE]
    ELSE LET serverStatus == w.status["server"]
             tunnelStatus == w.status["tunnel"]
         IN  IF serverStatus \in ServerActive \/ tunnelStatus \in TunnelActive
             THEN QuitStopTunnel(w, Len(w.quits) + 1, serverStatus, tunnelStatus)
             ELSE [w EXCEPT !.isQuitting = TRUE, !.appQuit = TRUE]

(* The handler i goes on after the stop() it awaited has resolved. *)
QuitContinue(w, i) ==
    LET h == w.quits[i]
        w0 == [w EXCEPT !.quits[i].pc = "done"]
    IN  IF h.pc = "tunnel"
        THEN QuitStopServer(w0, i, h.serverStatus)
        ELSE QuitFinally(w0)

(***************************************************************************)
(* The event loop                                                          *)
(***************************************************************************)
QuitReady(i) ==
    /\ quits[i].pc \in Managers
    /\ Resolved(stops[quits[i].pc][quits[i].k])

(* An event loop that runs other callbacks while start() is at an await. *)
QuietDuringSetup ==
    /\ ~appQuit
    /\ \A m \in Managers : \A p \in 1..Len(procs[m]) : procs[m][p].phase # "failed"
    /\ \A i \in 1..Len(quits) : ~QuitReady(i)

(* No microtask or next-tick callback is waiting: a new callback may run. *)
Quiet ==
    /\ ~appQuit
    /\ startPc = "none"
    /\ \A m \in Managers : \A p \in 1..Len(procs[m]) : procs[m][p].phase # "failed"
    /\ \A i \in 1..Len(quits) : ~QuitReady(i)

WithinBounds(w) ==
    /\ Calls(w) <= MaxCalls
    /\ Len(w.quits) <= MaxQuits

StopOnExit(w, m, k) ==
    IF m = "server" THEN ServerStopOnExit(w, k) ELSE TunnelStopOnExit(w, k)

(* The 'exit' listeners on process p of manager m, in the order stop()     *)
(* registered them, from the k-th stop() on.                               *)
RECURSIVE ExitListeners(_, _, _, _)
ExitListeners(w, m, p, k) ==
    IF k > Len(w.stops[m]) THEN w
    ELSE ExitListeners(IF w.stops[m][k].target = p THEN StopOnExit(w, m, k) ELSE w,
                       m, p, k + 1)

(* ipcMain.handle('server:start') *)
IpcServerStart ==
    /\ Quiet
    /\ status["server"] \in {"running", "starting"} \/ Calls(World) < MaxCalls
    /\ Commit(ServerStart(World), "start", "server", 0)

ServerStartExtract ==
    /\ ~appQuit
    /\ startPc = "extract"
    /\ \E rmOk \in BOOLEAN, unzipOk \in BOOLEAN, written \in 0..Len(ArchiveOrder) :
          /\ unzipOk => written = Len(ArchiveOrder)
          /\ Commit(ServerStartSegment(
                        ExtractServerIfNeeded(World, rmOk, unzipOk, written), "db"),
                    "extractServerIfNeeded", "server", 0)

ServerStartDatabase ==
    /\ ~appQuit
    /\ startPc = "db"
    /\ \E openOk \in BOOLEAN :
          Commit(ServerStartSegment(EnsureDatabase(World, openOk), "spawn"),
                 "ensureDatabase", "server", 0)

ServerStartSpawn ==
    /\ ~appQuit
    /\ startPc = "spawn"
    /\ \E ok \in BOOLEAN :
          Commit(ServerStartSegment(SpawnServer(World, ok), "none"),
                 "spawnServer", "server", 0)

(* server:set-port storing whatever it is given. *)
ServerSetPortUnchecked(w, n) == [w EXCEPT !.configStore.serverPort = n]

(* ipcMain.handle('server:set-port'): the port the renderer sends. *)
PortInputs == {0, 4000, 4001, 65536}

ServerSetPort(w, n) ==
    IF n < MinPort \/ n > MaxPort
    THEN [w EXCEPT !.raised = TRUE]
    ELSE [w EXCEPT !.configStore.serverPort = n]

IpcServerSetPort ==
    /\ Quiet
    /\ \E n \in PortInputs : Commit(ServerSetPort(World, n), "set-port", "server", n)

(* ipcMain.handle('server:restart'), up to its await of stop(): k is the   *)
(* promise it awaits, 0 when stop() returned at once.                      *)
ServerRestart(w) ==
    LET w0 == ServerStop(w)
    IN  [w0 EXCEPT !.restarts = Append(@, [pc |-> "stop", k |-> w0.ret])]

IpcServerRestart ==
    /\ Quiet
    /\ Len(restarts) < MaxRestarts
    /\ WithinBounds(ServerRestart(World))
    /\ Commit(ServerRestart(World), "restart", "server", 0)

(* stop() has resolved and the 1000 ms timer of the i-th restart fires:    *)
(* the callback calls start().                                             *)
RestartStopResolved(i) ==
    /\ restarts[i].pc = "stop"
    /\ IF restarts[i].k = 0
       THEN TRUE
       ELSE Resolved(stops["server"][restarts[i].k])

RestartTimeout(w, i) ==
    LET w0 == ServerStart(w)
    IN  [w0 EXCEPT !.restarts[i].pc = "start"]

RestartTimer ==
    /\ Quiet
    /\ \E i \in 1..Len(restarts) :
          /\ RestartStopResolved(i)
          /\ status["server"] \in {"running", "starting"} \/ Calls(World) < MaxCalls
          /\ Commit(RestartTimeout(World, i), "restart-timer", "server", i)

(* ipcMain.handle('server:stop') *)
IpcServerStop ==
    /\ Quiet
    /\ WithinBounds(ServerStop(World))
    /\ Commit(ServerStop(World), "stop", "server", 0)

(* ipcMain.handle('tunnel:start') *)
IpcTunnelStart ==
    /\ Quiet
    /\ \E ok \in BOOLEAN :
          /\ WithinBounds(TunnelStart(World, ConfiguredPort(World), ok))
          /\ Commit(TunnelStart(World, ConfiguredPort(World), ok), "start", "tunnel", 0)

(* ipcMain.handle('tunnel:set-token') *)
TunnelSetToken(w, t) == [w EXCEPT !.configStore.tunnelToken = t]

IpcTunnelSetToken ==
    /\ Quiet
    /\ \E t \in TunnelTokens :
          Commit(TunnelSetToken(World, t), "set-token", "tunnel", 0)

(* ipcMain.handle('tunnel:stop') *)
IpcTunnelStop ==
    /\ Quiet
    /\ WithinBounds(TunnelStop(World))
    /\ Commit(TunnelStop(World), "stop", "tunnel", 0)

(* The 5 second timer of a stop() fires. *)
StopTimeout ==
    /\ Quiet
    /\ \E m \in Managers : \E k \in 1..Len(stops[m]) :
          /\ stops[m][k].timer = "pending"
          /\ Commit(IF m = "server" THEN ServerStopTimeout(World, k)
                                    ELSE TunnelStopTimeout(World, k),
                    "timeout", m, k)

(* A child process ends and its 'exit' event is delivered. *)
ProcessExit ==
    /\ Quiet
    /\ \E m \in Managers : \E p \in 1..Len(procs[m]) :
          /\ procs[m][p].phase = "alive"
          /\ Commit(ExitListeners([World EXCEPT !.procs[m][p].phase = "exited"],
                                  m, p, 1),
                    "exit", m, p)

(* The 'close' event of a child process, after its 'exit'.  After 'error'  *)
(* it may come or not: the 'error' handler throws.                         *)
ProcessClose ==
    /\ Quiet
    /\ \E m \in Managers : \E p \in 1..Len(procs[m]) :
          /\ procs[m][p].phase \in {"exited", "errored"}
          /\ LET w == [World EXCEPT !.procs[m][p].phase =
                                       IF @ = "exited" THEN "closed" ELSE "gone"]
             IN  Commit(IF m = "server" THEN ServerOnClose(w) ELSE TunnelOnClose(w),
                        "close", m, p)

(* The 'error' event of a child the OS could not launch, on the next tick. *)
ProcessError ==
    /\ ~appQuit
    /\ \E m \in Managers : \E p \in 1..Len(procs[m]) :
          /\ procs[m][p].phase = "failed"
          /\ LET w == [World EXCEPT !.procs[m][p].phase = "errored"]
             IN  Commit(IF m = "server" THEN ServerOnError(w) ELSE TunnelOnError(w),
                        "error", m, p)

(* Output of a child: it may still arrive between 'exit' and 'close'. *)
ServerOutput ==
    /\ Quiet
    /\ \E p \in 1..Len(procs["server"]) : \E msg \in ServerLines :
          /\ procs["server"][p].phase \in {"alive", "exited"}
          /\ Commit(ServerOnStdout(World, msg), "data", "server", p)

TunnelOutput ==
    /\ Quiet
    /\ \E p \in 1..Len(procs["tunnel"]) : \E msg \in TunnelLines :
          /\ procs["tunnel"][p].phase \in {"alive", "exited"}
          /\ Commit(TunnelOnData(World, msg), "data", "tunnel", p)

(* app.quit() is requested: before-quit is emitted. *)
BeforeQuit ==
    /\ Quiet
    /\ WithinBounds(BeforeQuitHandler(World))
    /\ Commit(BeforeQuitHandler(World), "before-quit", "app", 0)

BeforeQuitContinue ==
    /\ ~appQuit
    /\ startPc = "none"
    /\ \E i \in 1..Len(quits) :
          /\ QuitReady(i)
          /\ \A j \in 1..(i - 1) : ~QuitReady(j)
          /\ WithinBounds(QuitContinue(World, i))
          /\ Commit(QuitContinue(World, i), "before-quit-continue", "app", i)

ProvisionedFs ==
    [zip |-> TRUE, zipExe |-> TRUE, zipCloudflared |-> TRUE, zipInitialDb |-> TRUE,
     dir |-> TRUE, exe |-> AppVersion, cloudflared |-> AppVersion,
     initialDb |-> AppVersion, dataDb |-> "ok"]

DefaultConfig ==
    [serverPort |-> DefaultPort, serverVersion |-> AppVersion,
     tunnelToken |-> "", tunnelUrl |-> NoUrl]

InitWith(c, f) ==
    /\ status = [m \in Managers |-> "idle"]
    /\ process = [m \in Managers |-> NoProcess]
    /\ configStore = c
    /\ fs = f
    /\ port = IF c.serverPort = 0 THEN DefaultPort ELSE c.serverPort
    /\ tunnelUrl = NoUrl
    /\ startPc = "none"
    /\ procs = [m \in Managers |-> <<>>]
    /\ stops = [m \in Managers |-> <<>>]
    /\ isQuitting = FALSE
    /\ appQuit = FALSE
    /\ quits = <<>>
    /\ restarts = <<>>
    /\ last = [op |-> "init", m |-> "app", id |-> 0, ev |-> <<>>, raised |-> FALSE]

Init == InitWith(DefaultConfig, ProvisionedFs)

Next ==
    \/ IpcServerStart
    \/ ServerStartExtract
    \/ ServerStartDatabase
    \/ ServerStartSpawn
    \/ IpcServerStop
    \/ IpcTunnelStart
    \/ IpcTunnelStop
    \/ StopTimeout
    \/ ProcessExit
    \/ ProcessClose
    \/ ProcessError
    \/ ServerOutput
    \/ TunnelOutput
    \/ BeforeQuit
    \/ BeforeQuitContinue

Spec == Init /\ [][Next]_vars

(***************************************************************************)
(* Provisioning: the primary service alone, started on every installation  *)
(* the launcher can find on disk.                                          *)
(***************************************************************************)
(* The version of an earlier release of the application. *)
OldVersion == 1

(* The extraction directory of an installation whose version tag is tag:   *)
(* absent before the first start, afterwards the files of that release,    *)
(* any of which may have been deleted since.                               *)
InstalledFiles(tag) ==
    IF tag = 0
    THEN {[dir |-> FALSE, exe |-> 0, cloudflared |-> 0, initialDb |-> 0]}
    ELSE [dir : {TRUE}, exe : {0, tag}, cloudflared : {0, tag}, initialDb : {0, tag}]

(* The bundled archive: missing, or built by scripts/prepare.js, which     *)
(* always packs the executable and packs cloudflared and initial.db when   *)
(* it has them.                                                            *)
Archives ==
    {[zip |-> FALSE, zipExe |-> FALSE, zipCloudflared |-> FALSE, zipInitialDb |-> FALSE]}
    \cup [zip : {TRUE}, zipExe : {TRUE}, zipCloudflared : BOOLEAN, zipInitialDb : BOOLEAN]

DataFiles == {"absent", "ok", "corrupt"}

Installation(tag, f, z, d) ==
    [zip |-> z.zip, zipExe |-> z.zipExe, zipCloudflared |-> z.zipCloudflared,
     zipInitialDb |-> z.zipInitialDb, dir |-> f.dir, exe |-> f.exe,
     cloudflared |-> f.cloudflared, initialDb |-> f.initialDb, dataDb |-> d]

InitProvision ==
    \E tag \in {0, OldVersion, AppVersion} :
       \E f \in InstalledFiles(tag), z \in Archives, d \in DataFiles :
          InitWith([DefaultConfig EXCEPT !.serverVersion = tag],
                   Installation(tag, f, z, d))

NextProvision ==
    \/ IpcServerStart
    \/ ServerStartExtract
    \/ ServerStartDatabase
    \/ ServerStartSpawn
    \/ IpcServerStop
    \/ StopTimeout
    \/ ProcessExit
    \/ ProcessClose
    \/ ProcessError
    \/ ServerOutput

SpecProvision == InitProvision /\ [][NextProvision]_vars

(***************************************************************************)
(* The tunnel alone, in quick and in token mode, with and without a URL    *)
(* stored by an earlier run.                                               *)
(***************************************************************************)
StoredUrls ==
    {NoUrl, "https://xyz-9.trycloudflare.com", "https://tunnel.example.com"}

InitTunnel ==
    \E t \in TunnelTokens, u \in StoredUrls :
       InitWith([DefaultConfig EXCEPT !.tunnelToken = t, !.tunnelUrl = u],
                ProvisionedFs)

NextTunnel ==
    \/ IpcTunnelStart
    \/ IpcTunnelStop
    \/ StopTimeout
    \/ ProcessExit
    \/ ProcessClose
    \/ ProcessError
    \/ TunnelOutput

SpecTunnel == InitTunnel /\ [][NextTunnel]_vars

(***************************************************************************)
(* The port: the primary service alone, with the renderer changing the     *)
(* configured port at any time.                                            *)
(***************************************************************************)
StoredPorts == {0, 4000, 4001}

InitPort ==
    \E n \in StoredPorts :
       InitWith([DefaultConfig EXCEPT !.serverPort = n], ProvisionedFs)

NextPort ==
    \/ IpcServerSetPort
    \/ IpcServerStart
    \/ ServerStartExtract
    \/ ServerStartDatabase
    \/ ServerStartSpawn
    \/ IpcServerStop
    \/ StopTimeout
    \/ ProcessExit
    \/ ProcessClose
    \/ ProcessError
    \/ ServerOutput

SpecPort == InitPort /\ [][NextPort]_vars

(***************************************************************************)
(* The tunnel's command line: the tunnel alone, for every stored port,     *)
(* with the renderer setting and clearing the tunnel token at any time;    *)
(* a tunnel ends when its process exits.                                   *)
(***************************************************************************)
InitArgs ==
    \E n \in StoredPorts :
       InitWith([DefaultConfig EXCEPT !.serverPort = n], ProvisionedFs)

NextArgs ==
    \/ IpcTunnelSetToken
    \/ IpcTunnelStart
    \/ ProcessExit
    \/ ProcessClose
    \/ ProcessError
    \/ TunnelOutput

SpecArgs == InitArgs /\ [][NextArgs]_vars

(***************************************************************************)
(* Both services at once: the renderer starts them and changes the         *)
(* configured port in between; the processes that were launched keep       *)
(* running.                                                                *)
(***************************************************************************)
NextLaunch ==
    \/ IpcServerSetPort
    \/ IpcServerStart
    \/ ServerStartExtract
    \/ ServerStartDatabase
    \/ ServerStartSpawn
    \/ IpcTunnelStart
    \/ ProcessError
    \/ ServerOutput
    \/ TunnelOutput

SpecLaunch == Init /\ [][NextLaunch]_vars

(***************************************************************************)
(* Upgrading: the first run of a new release on an installation that holds *)
(* all the files of the release before, with both services; the archive of *)
(* the new release was built with or without cloudflared.                  *)
(***************************************************************************)
InitUpgrade ==
    \E zc \in BOOLEAN :
       InitWith([DefaultConfig EXCEPT !.serverVersion = OldVersion],
                [ProvisionedFs EXCEPT !.exe = OldVersion, !.cloudflared = OldVersion,
                                      !.initialDb = OldVersion, !.zipCloudflared = zc])

NextUpgrade ==
    \/ IpcServerStart
    \/ ServerStartExtract
    \/ ServerStartDatabase
    \/ ServerStartSpawn
    \/ IpcServerStop
    \/ IpcTunnelStart
    \/ IpcTunnelStop
    \/ StopTimeout
    \/ ProcessExit
    \/ ProcessClose
    \/ ProcessError
    \/ ServerOutput
    \/ TunnelOutput

SpecUpgrade == InitUpgrade /\ [][NextUpgrade]_vars

(***************************************************************************)
(* Restarting: the primary service alone, with server:restart.             *)
(***************************************************************************)
NextRestart ==
    \/ IpcServerRestart
    \/ RestartTimer
    \/ IpcServerStart
    \/ ServerStartExtract
    \/ ServerStartDatabase
    \/ ServerStartSpawn
    \/ IpcServerStop
    \/ StopTimeout
    \/ ProcessExit
    \/ ProcessClose
    \/ ProcessError
    \/ ServerOutput

SpecRestart == Init /\ [][NextRestart]_vars

(***************************************************************************)
(* Starting: both managers, on an installation with and without the tunnel *)
(* binary; the segments of start() after its awaits are continuations the  *)
(* event loop always runs.                                                 *)
(***************************************************************************)
InitStart ==
    \E c \in {0, AppVersion} :
       InitWith(DefaultConfig,
                [ProvisionedFs EXCEPT !.cloudflared = c, !.zipCloudflared = (c # 0)])

SpecStart ==
    /\ InitStart
    /\ [][Next]_vars
    /\ WF_vars(ServerStartExtract)
    /\ WF_vars(ServerStartDatabase)
    /\ WF_vars(ServerStartSpawn)

(***************************************************************************)
(* Properties                                                              *)
(***************************************************************************)
(* A process of manager m that has neither been observed to exit nor been  *)
(* sent SIGKILL.                                                           *)
Alive(m, p) == procs[m][p].phase = "alive" /\ ~procs[m][p].killed

LiveProcesses(m) == {p \in 1..Len(procs[m]) : Alive(m, p)}

HandleStatuses == {"starting", "running", "stopping"}

(* C1: for each manager, at most one process it spawned is alive (neither  *)
(* observed to exit nor force-killed) in every reachable state.            *)
C1_AtMostOneLiveProcess ==
    \A m \in Managers : Cardinality(LiveProcesses(m)) <= 1

(* C2: for each manager, the process handle is non-empty if and only if    *)
(* status is starting, running or stopping.                                *)
C2_HandleIffStatus ==
    \A m \in Managers : (process[m] # NoProcess) <=> (status[m] \in HandleStatuses)

(* C3: a start() call made while status is running or starting changes     *)
(* nothing: no process, no extraction or database check, the same status,  *)
(* handle, port and endpoint; it emits one log line and does not throw.    *)
C3_StartWhileRunningIsNoOp ==
    [][\A m \in Managers :
          (last'.op = "start" /\ last'.m = m /\ status[m] \in {"running", "starting"})
          => /\ status' = status
             /\ process' = process
             /\ port' = port
             /\ tunnelUrl' = tunnelUrl
             /\ startPc' = startPc
             /\ procs' = procs
             /\ stops' = stops
             /\ fs' = fs
             /\ configStore' = configStore
             /\ Len(last'.ev) = 1
             /\ last'.ev[1][1] = "log"
             /\ ~last'.raised]_vars

(* A start() has just been called on the running primary service. *)
C3_Witness ==
    /\ last.op = "start"
    /\ last.m = "server"
    /\ status["server"] = "running"
    /\ process["server"] # NoProcess

(* C4: a stop() that found a handle resolves once its timer has fired or   *)
(* been cancelled and every event of its process has been delivered.       *)
C4_StopResolves ==
    \A m \in Managers : \A k \in 1..Len(stops[m]) :
        (/\ stops[m][k].timer # "pending"
         /\ procs[m][stops[m][k].target].phase = "closed")
        => Resolved(stops[m][k])

(* C5: an event of a stop() that is already complete (its timer, or the    *)
(* exit or close of its process) changes neither status, handle nor        *)
(* endpoint and emits nothing.                                             *)
C5_StopCompletesOnce ==
    [][\A m \in Managers :
          (/\ last'.m = m
           /\ \/ /\ last'.op = "timeout"
                 /\ Resolved(stops[m][last'.id])
              \/ /\ last'.op \in {"exit", "close"}
                 /\ \E k \in 1..Len(stops[m]) :
                       stops[m][k].target = last'.id /\ Resolved(stops[m][k]))
          => /\ status'[m] = status[m]
             /\ process'[m] = process[m]
             /\ tunnelUrl' = tunnelUrl
             /\ last'.ev = <<>>]_vars

(* C6: a stop() is resolved only when the process it is stopping has been  *)
(* observed to exit or has been sent SIGKILL.                              *)
C6_ResolvedOnlyAfterExitOrKill ==
    \A m \in Managers : \A k \in 1..Len(stops[m]) :
        Resolved(stops[m][k]) => ~Alive(m, stops[m][k].target)

(* C7: when the timer of a stop() fires and no exit of its process has     *)
(* been observed, that process has been sent SIGKILL, the handle is empty  *)
(* and status is idle.                                                     *)
C7_TimeoutKills ==
    \A m \in Managers :
        (/\ last.op = "timeout"
         /\ last.m = m
         /\ procs[m][stops[m][last.id].target].phase = "alive")
        => /\ procs[m][stops[m][last.id].target].killed
           /\ process[m] = NoProcess
           /\ status[m] = "idle"

(* C8: a stop() whose promise was resolved by the exit of its process has  *)
(* no pending timer, and its timer has sent SIGKILL to no process.         *)
C8_ExitCancelsKill ==
    \A m \in Managers : \A k \in 1..Len(stops[m]) :
        stops[m][k].done = "exit"
        => /\ stops[m][k].timer # "pending"
           /\ stops[m][k].killed = NoProcess

(* The exit was observed in time, and the manager has a newer process. *)
C8_Witness ==
    \E m \in Managers : \E k \in 1..Len(stops[m]) :
        /\ stops[m][k].done = "exit"
        /\ stops[m][k].timer = "cancelled"
        /\ process[m] > stops[m][k].target
        /\ Alive(m, process[m])

(* C9: stop() on a manager with no process handle changes nothing, emits   *)
(* nothing, and creates neither a promise nor a timer.                     *)
C9_StopWithoutHandleIsNoOp ==
    [][\A m \in Managers :
          (last'.op = "stop" /\ last'.m = m /\ process[m] = NoProcess)
          => /\ status' = status
             /\ process' = process
             /\ tunnelUrl' = tunnelUrl
             /\ procs' = procs
             /\ stops' = stops
             /\ last'.ev = <<>>
             /\ ~last'.raised]_vars

(* stop() has just been called on a tunnel manager without a handle. *)
C9_Witness ==
    /\ last.op = "stop"
    /\ last.m = "tunnel"
    /\ process["tunnel"] = NoProcess
    /\ status["tunnel"] = "idle"
    /\ Len(procs["tunnel"]) > 0

(* C10: when a before-quit goes through, neither manager has a live        *)
(* process.                                                                *)
C10_NoLiveProcessAtQuit ==
    appQuit => \A m \in Managers : LiveProcesses(m) = {}

(* C11: a before-quit handler never initiates the stop() of the primary    *)
(* service (a new promise, SIGTERM sent) while the tunnel still has a live *)
(* process.                                                                *)
C11_TunnelStoppedBeforeServer ==
    [][(/\ last'.m = "app"
        /\ Len(stops'["server"]) > Len(stops["server"]))
       => LiveProcesses("tunnel")' = {}]_vars

(* The status events among the events of the callback that ran last. *)
StatusEvents(ev) == {i \in 1..Len(ev) : ev[i][1] = "status-change"}

(* C12: an output line of the process in the handle, received when status  *)
(* is already running, or after stop() set it to stopping, emits no status *)
(* event and leaves the status as it was.                                  *)
C12_PromotedOnce ==
    [][\A m \in Managers :
          (/\ last'.op = "data"
           /\ last'.m = m
           /\ last'.id = process[m]
           /\ status[m] \in {"running", "stopping"})
          => /\ \A i \in StatusEvents(last'.ev) : last'.ev[i] # StatusChange("running")
             /\ status[m] = "stopping" => status'[m] # "running"]_vars

(* C13: a line with a quick-tunnel URL sets the endpoint to that URL,      *)
(* stores it in the configuration and sets status running; once the        *)
(* endpoint of the run is set, no later line emits a url event with a URL  *)
(* or a running status event again.                                        *)
C13_QuickTunnelUrlOnce ==
    [][(/\ last'.op = "data"
        /\ last'.m = "tunnel"
        /\ last'.id = process["tunnel"])
       => /\ \A i \in 1..Len(last'.ev) :
                (last'.ev[i][1] = "url-change" /\ last'.ev[i][2] # NoUrl)
                => /\ tunnelUrl' = last'.ev[i][2]
                   /\ configStore'.tunnelUrl = last'.ev[i][2]
                   /\ IsQuickTunnelUrl(last'.ev[i][2])
                   /\ status'["tunnel"] = "running"
          /\ tunnelUrl # NoUrl
             => \A i \in 1..Len(last'.ev) :
                   /\ last'.ev[i] # StatusChange("running")
                   /\ last'.ev[i][1] = "url-change" => last'.ev[i][2] = NoUrl]_vars

(* C14: from status stopping, a manager's status can only become idle.     *)
C14_StoppingThenIdle ==
    [][\A m \in Managers :
          status[m] = "stopping" => status'[m] \in {"stopping", "idle"}]_vars

(***************************************************************************)
(* Provisioning properties (checked under SpecProvision)                   *)
(***************************************************************************)
HasLog(ev, text) == \E i \in 1..Len(ev) : ev[i] = Log(text)

ProvisionedFiles == {"exe", "cloudflared", "initialDb"}

(* The three conditions of an extraction that is not needed. *)
UpToDate ==
    /\ fs.exe # 0
    /\ fs.cloudflared # 0
    /\ configStore.serverVersion = AppVersion

(* The step skipped the extraction: nothing on disk or in the              *)
(* configuration changed and no status was emitted.                        *)
ExtractionSkipped ==
    /\ fs' = fs
    /\ configStore' = configStore
    /\ StatusEvents(last'.ev) = {}
    /\ HasLog(last'.ev, "Server resources are up to date.")

(* C15 as stated: extraction is skipped iff the executable and the tunnel  *)
(* binary exist and the tag equals the version; in every other case the    *)
(* directory holds exactly the files of the archive afterwards.            *)
C15_AsStated ==
    [][last'.op = "extractServerIfNeeded"
       => IF UpToDate
          THEN ExtractionSkipped
          ELSE \A f \in ProvisionedFiles :
                  fs'[f] = IF InZip([fs |-> fs], f) THEN AppVersion ELSE 0]_vars

(* C15, amended: extraction is skipped iff the three conditions hold.      *)
(* Otherwise, with the archive missing nothing is deleted or extracted and *)
(* the step throws; with the archive present the deletion of an existing   *)
(* directory is attempted, and when the extraction completes every file of *)
(* the archive has the current version, the tag is the current version,    *)
(* and a file the archive does not hold is gone unless the deletion failed.*)
C15_SkipIffUpToDate ==
    [][last'.op = "extractServerIfNeeded"
       => /\ UpToDate <=> ExtractionSkipped
          /\ (~UpToDate /\ ~fs.zip)
             => /\ fs' = fs
                /\ configStore' = configStore
                /\ last'.raised
          /\ (~UpToDate /\ fs.zip)
             => /\ fs.dir <=> HasLog(last'.ev, "Cleaning up old server files...")
                /\ HasLog(last'.ev, "Extraction complete.")
                   => /\ configStore'.serverVersion = AppVersion
                      /\ \A f \in ProvisionedFiles :
                            fs'[f] = IF InZip([fs |-> fs], f) THEN AppVersion
                                     ELSE IF HasLog(last'.ev, "Warning: Failed to clean old files")
                                          THEN fs[f] ELSE 0]_vars

(* An extraction over an existing directory has just completed. *)
C15_Witness ==
    /\ last.op = "extractServerIfNeeded"
    /\ HasLog(last.ev, "Cleaning up old server files...")
    /\ HasLog(last.ev, "Extraction complete.")
    /\ fs.exe = AppVersion
    /\ configStore.serverVersion = AppVersion

(* The start() whose step this is has failed: it threw to its caller,      *)
(* status is error, and it neither spawned a process nor set the handle.   *)
StartAborted ==
    /\ last'.raised
    /\ status'["server"] = "error"
    /\ startPc' = "none"
    /\ procs' = procs
    /\ process' = process

(* C16 as stated: every start() from idle or error with the archive        *)
(* missing throws, sets status error and spawns nothing.                   *)
C16_AsStated ==
    [][(/\ last'.op = "extractServerIfNeeded"
        /\ status["server"] \in {"idle", "error"}
        /\ ~fs.zip)
       => StartAborted]_vars

(* C16, amended: a start() from idle or error with the archive missing     *)
(* and an extraction needed throws, sets status error and spawns nothing;  *)
(* when no extraction is needed the archive is not looked at and start()   *)
(* goes on to the database check.                                          *)
C16_ArchiveMissingAborts ==
    [][(/\ last'.op = "extractServerIfNeeded"
        /\ status["server"] \in {"idle", "error"}
        /\ ~fs.zip)
       => IF UpToDate
          THEN ~last'.raised /\ startPc' = "db" /\ status' = status
          ELSE StartAborted]_vars

(* A start() has just failed on the missing archive. *)
C16_Witness ==
    /\ last.op = "extractServerIfNeeded"
    /\ last.raised
    /\ ~fs.zip
    /\ status["server"] = "error"
    /\ process["server"] = NoProcess
    /\ procs["server"] = <<>>

IsStatusEvent(e) == e[1] = "status-change"

(* The statuses of the status events a callback emitted, in order. *)
Statuses(ev) ==
    LET se == SelectSeq(ev, IsStatusEvent)
    IN  [i \in 1..Len(se) |-> se[i][2]]

(* The three segments of a start() from idle on an installation with a     *)
(* stale tag and the archive present, when the extraction and the open of  *)
(* the data file succeed: each emits exactly one status.                   *)
StaleStartStatuses ==
    /\ (/\ last'.op = "extractServerIfNeeded"
        /\ status["server"] = "idle"
        /\ configStore.serverVersion # AppVersion
        /\ fs.zip
        /\ ~last'.raised)
       => Statuses(last'.ev) = <<"extracting">> /\ startPc' = "db"
    /\ (/\ last'.op = "ensureDatabase"
        /\ status["server"] = "extracting"
        /\ ~last'.raised)
       => Statuses(last'.ev) = <<"migrating">> /\ startPc' = "spawn"
    /\ (/\ last'.op = "spawnServer"
        /\ status["server"] = "migrating"
        /\ fs.exe # 0)
       => Statuses(last'.ev) = <<"starting">> /\ process'["server"] # NoProcess

(* The step made the primary service running. *)
BecomesRunning == status["server"] # "running" /\ status'["server"] = "running"

(* C18 as stated: extracting, migrating, starting, one per segment, and    *)
(* running only on a line "listening on port <port>".                      *)
C18_AsStated ==
    [][/\ StaleStartStatuses
       /\ BecomesRunning
          => /\ last'.op = "data"
             /\ last'.ev[1][3].text = "listening on port"
             /\ last'.ev[1][3].n = port]_vars

(* C18, amended: extracting, migrating, starting, one per segment, and     *)
(* running only on a line with one of the two ready signals: "listening    *)
(* on port <port>" or "Nest application successfully started".             *)
C18_StaleStartSequence ==
    [][/\ StaleStartStatuses
       /\ BecomesRunning
          => /\ last'.op = "data"
             /\ ServerReady(last'.ev[1][3], port)]_vars

(* After a start() on an installation of the earlier release, whose        *)
(* template survived the extraction, the line with the port has made the   *)
(* service running.                                                        *)
C18_Witness ==
    /\ last.op = "data"
    /\ last.ev[1][3] = [text |-> "listening on port", n |-> DefaultPort]
    /\ Statuses(last.ev) = <<"running">>
    /\ Len(procs["server"]) = 1
    /\ fs.initialDb = OldVersion
    /\ configStore.serverVersion = AppVersion

(* C19: the setup phase of a start() is not interleaved with any other     *)
(* call: status extracting or migrating is only seen while that start() is *)
(* at an await, and then the one step taken is its own next segment, so    *)
(* no other start() or stop() runs, and each start() makes one extraction  *)
(* check, one database check and at most one spawn.                        *)
C19_SetupRunsToCompletion ==
    [][/\ status'["server"] \in {"extracting", "migrating"} => startPc' # "none"
       /\ startPc = "extract" => last'.op = "extractServerIfNeeded"
       /\ startPc = "db" => last'.op = "ensureDatabase"
       /\ startPc = "spawn"
          => /\ last'.op = "spawnServer"
             /\ Len(procs'["server"]) <= Len(procs["server"]) + 1
             /\ stops' = stops]_vars

(* A start() is in its setup phase while the manager holds the handle of   *)
(* an earlier process, which a stop() would act on.                        *)
C19_Witness ==
    /\ startPc = "db"
    /\ status["server"] = "extracting"
    /\ process["server"] # NoProcess

(* C20: the files in the extraction directory are those of the release     *)
(* the version tag names (none is of another release), and the tag changes *)
(* only in a step that completed an extraction of the whole archive.       *)
C20_FilesMatchTag ==
    [][/\ configStore'.serverVersion # 0
          => \A f \in ProvisionedFiles : fs'[f] \in {0, configStore'.serverVersion}
       /\ configStore'.serverVersion # configStore.serverVersion
          => /\ last'.op = "extractServerIfNeeded"
             /\ HasLog(last'.ev, "Extraction complete.")
             /\ \A f \in ProvisionedFiles :
                   InZip([fs |-> fs], f) => fs'[f] = AppVersion]_vars

(* The directory and the tag are what a completed extraction of the        *)
(* bundled archive leaves.                                                 *)
ProvisionedFromArchive ==
    /\ fs.zip
    /\ configStore.serverVersion = AppVersion
    /\ \A f \in ProvisionedFiles :
          fs[f] = IF InZip([fs |-> fs], f) THEN AppVersion ELSE 0

(* C21: a provisioning that finds the directory and the tag as a completed *)
(* extraction of the same archive left them skips the extraction, whatever *)
(* the archive holds.                                                      *)
C21_ProvisioningIdempotent ==
    [][(last'.op = "extractServerIfNeeded" /\ ProvisionedFromArchive)
       => ExtractionSkipped]_vars

(* C22: a data file that exists is never changed by a start(), and the     *)
(* data file becomes a copy of the template only in a database check that  *)
(* found it absent and the template present.                               *)
C22_DataFileNeverOverwritten ==
    [][/\ fs.dataDb # "absent" => fs'.dataDb = fs.dataDb
       /\ (fs'.dataDb = "template" /\ fs.dataDb # "template")
          => /\ last'.op = "ensureDatabase"
             /\ fs.dataDb = "absent"
             /\ fs.initialDb # 0]_vars

(* A later start(), after a run of the service, has passed the database    *)
(* check with the data file a copy of the template and a template present. *)
C22_Witness ==
    /\ last.op = "ensureDatabase"
    /\ HasLog(last.ev, "Database check passed.")
    /\ fs.dataDb = "template"
    /\ fs.initialDb # 0
    /\ Len(procs["server"]) >= 1

C24_SpawnFailureRaised ==
    [][\A m \in Managers :
          /\ (/\ last'.m = m
              /\ Len(procs'[m]) > Len(procs[m])
              /\ procs'[m][Len(procs'[m])].phase = "failed")
             => last'.raised
          /\ (last'.op = "error" /\ last'.m = m) => status'[m] = "error"]_vars

(* The line a 'data' callback of the tunnel has just handled. *)
TunnelLineHandled == last'.ev[1][3]

(* C25: an output line of the tunnel with "failed" or "error", handled     *)
(* while the endpoint is empty, sets status error; handled while there is  *)
(* an endpoint, it leaves the status as it was.                            *)
C25_FailureVocabulary ==
    [][(/\ last'.op = "data"
        /\ last'.m = "tunnel"
        /\ Includes(TunnelLineHandled, "failed") \/ Includes(TunnelLineHandled, "error"))
       => IF tunnelUrl = NoUrl
          THEN status'["tunnel"] = "error"
          ELSE status'["tunnel"] = status["tunnel"]]_vars

(* C26: in token mode a line with "Connection" and "registered" sets       *)
(* status running and leaves as endpoint the URL stored in the             *)
(* configuration or none, and no line changes the endpoint to anything but *)
(* the stored URL or none.                                                 *)
C26_TokenModeEndpoint ==
    [][(/\ last'.op = "data"
        /\ last'.m = "tunnel"
        /\ configStore.tunnelToken # "")
       => /\ (/\ Includes(TunnelLineHandled, "Connection")
              /\ Includes(TunnelLineHandled, "registered"))
             => /\ status'["tunnel"] = "running"
                /\ tunnelUrl' \in {configStore.tunnelUrl, NoUrl}
          /\ tunnelUrl' # tunnelUrl
             => tunnelUrl' \in {configStore.tunnelUrl, NoUrl}]_vars

(* C27: the tunnel's endpoint is empty in status idle, starting, stopping  *)
(* and error, and whenever the handle is empty.                            *)
C27_EndpointOnlyWhileRunning ==
    /\ status["tunnel"] \in {"idle", "starting", "stopping", "error"}
       => tunnelUrl = NoUrl
    /\ process["tunnel"] = NoProcess => tunnelUrl = NoUrl

(* C29: for both managers, a step that changes the status emits a status   *)
(* event carrying the new status and a log event "Status changed to: "     *)
(* naming it.                                                              *)
C29_TransitionsAnnounced ==
    [][\A m \in DOMAIN status :
          status'[m] # status[m]
          => /\ \E i \in DOMAIN last'.ev : last'.ev[i] = StatusChange(status'[m])
             /\ \E i \in DOMAIN last'.ev :
                   last'.ev[i] = <<"log", "Status changed to: ", status'[m]>>]_vars

(* An accepted start() of the primary service is the step just taken. *)
ServerStartAccepted ==
    /\ last'.op = "start"
    /\ last'.m = "server"
    /\ startPc' = "extract"

StartEnded(m) ==
    \/ /\ status'[m] = "starting"
       /\ ~last'.raised
       /\ Len(procs'[m]) = Len(procs[m]) + 1
       /\ process'[m] = Len(procs'[m])
    \/ /\ status'[m] = "error"
       /\ last'.raised
       /\ procs'[m] = procs[m]

(* C30: start() invoked in status idle or error is accepted: the primary   *)
(* service enters its start sequence, and the sequence always ends, with   *)
(* status starting and the handle of a new process or with status error    *)
(* and the failure raised; the tunnel does the same within the call.       *)
C30_StartAcceptedFromIdleOrError ==
    /\ [][/\ (/\ last'.op = "start"
              /\ last'.m = "server"
              /\ status["server"] \in {"idle", "error"})
             => startPc' = "extract"
          /\ (startPc # "none" /\ startPc' = "none") => StartEnded("server")
          /\ (/\ last'.op = "start"
              /\ last'.m = "tunnel"
              /\ status["tunnel"] \in {"idle", "error"})
             => StartEnded("tunnel")]_vars
    /\ (startPc # "none") ~> (startPc = "none")

(* start() of the primary service has just been accepted in status error. *)
C30_Witness ==
    /\ last.op = "start"
    /\ last.m = "server"
    /\ startPc = "extract"
    /\ status["server"] = "error"

(* C31: the tunnel process is spawned with `tunnel run --token <token>`    *)
(* exactly when the token configured at start() is not empty, and with     *)
(* `tunnel --url http://localhost:<port>`, for the port handed to start(), *)
(* otherwise; the arguments of a process never change afterwards.          *)
C31_TunnelArguments ==
    [][\A p \in 1..Len(procs'["tunnel"]) :
          LET a == procs'["tunnel"][p].args
          IN  IF p <= Len(procs["tunnel"])
              THEN a = procs["tunnel"][p].args
              ELSE /\ last'.op = "start"
                   /\ a[1] = "tunnel"
                   /\ configStore.tunnelToken # "" <=> a[2] = "run"
                   /\ configStore.tunnelToken # ""
                      => /\ Len(a) = 4
                         /\ a[3] = "--token"
                         /\ a[4] = configStore.tunnelToken
                   /\ configStore.tunnelToken = ""
                      => /\ Len(a) = 3
                         /\ a[2] = "--url"
                         /\ a[3] = LocalUrl(ConfiguredPort(World))]_vars

(* A named tunnel has just been spawned after a quick tunnel: the token    *)
(* was set between the two starts.                                         *)
C31_Witness ==
    /\ last.op = "start"
    /\ last.m = "tunnel"
    /\ Len(procs["tunnel"]) >= 2
    /\ process["tunnel"] = Len(procs["tunnel"])
    /\ procs["tunnel"][process["tunnel"]].args[2] = "run"
    /\ procs["tunnel"][process["tunnel"] - 1].args[2] = "--url"

(* C32: an output line never takes a tunnel whose status is running to     *)
(* status error.                                                           *)
C32_RunningNeverDemoted ==
    [][(/\ last'.op = "data"
        /\ last'.m = "tunnel"
        /\ status["tunnel"] = "running")
       => status'["tunnel"] # "error"]_vars

(* The manager has given up process p: a stop() aimed at it has resolved,  *)
(* by its exit or by the kill timer.                                       *)
GivenUp(m, p) ==
    \E k \in 1..Len(stops[m]) : stops[m][k].target = p /\ Resolved(stops[m][k])

(* C33: an exit, close or output event of a process the manager has given  *)
(* up, arriving when the handle refers to a process spawned later, changes *)
(* neither the handle nor the status nor the endpoint.                     *)
C33_StaleEventsIgnored ==
    [][\A m \in Managers :
          (/\ last'.m = m
           /\ last'.op \in {"exit", "close", "data"}
           /\ process[m] # NoProcess
           /\ last'.id < process[m]
           /\ GivenUp(m, last'.id))
          => /\ process'[m] = process[m]
             /\ status'[m] = status[m]
             /\ m = "tunnel" => tunnelUrl' = tunnelUrl]_vars

(* The stop() that the i-th before-quit handler awaits can no longer       *)
(* resolve: the process it listens to has emitted 'exit' and 'close', and  *)
(* its timer is no longer pending.                                         *)
QuitStuck(i) ==
    /\ quits[i].pc \in Managers
    /\ LET st == stops[quits[i].pc][quits[i].k]
       IN  /\ ~Resolved(st)
           /\ st.timer # "pending"
           /\ procs[quits[i].pc][st.target].phase \in {"closed", "gone"}

(* C34: a quit requested while a service is active goes through: the       *)
(* handler is never left awaiting a stop() that nothing can resolve any    *)
(* more, so that isQuitting is set and app.quit() is issued again.         *)
C34_QuitGoesThrough ==
    \A i \in 1..Len(quits) : ~QuitStuck(i)

(* The process the stop() awaited by the i-th restart was aimed at is gone *)
(* for the manager: it has exited, or the kill timer has sent it SIGKILL.  *)
RestartOldProcessGone(i) ==
    restarts[i].k # 0
    => LET st == stops["server"][restarts[i].k]
       IN  \/ procs["server"][st.target].phase # "alive"
           \/ \E k \in 1..Len(stops["server"]) :
                 stops["server"][k].killed = st.target

(* C35: server:restart calls start() only after the stop() it awaited has  *)
(* resolved; a process spawned by that start() is spawned after the old    *)
(* one has exited or been force-killed; and the request is never left      *)
(* without a way to resolve.                                               *)
C35_RestartStopsThenStarts ==
    [][/\ last'.op = "restart-timer" => RestartStopResolved(last'.id)
       /\ \A i \in 1..Len(restarts) :
             (restarts[i].pc = "start" /\ Len(procs'["server"]) > Len(procs["server"]))
             => RestartOldProcessGone(i)
       /\ \A i \in 1..Len(restarts') : restarts'[i].pc # "failed"]_vars

(* extractServerIfNeeded has just deleted the extraction directory: it     *)
(* announced the clean-up and rmSync did not fail.                         *)
DirectoryWiped ==
    /\ last'.op = "extractServerIfNeeded"
    /\ HasLog(last'.ev, "Cleaning up old server files...")
    /\ ~HasLog(last'.ev, "Warning: Failed to clean old files")

(* C36: the extraction directory is not deleted while a process launched   *)
(* from it, the tunnel or an earlier process of the service, is alive.     *)
C36_NoWipeUnderLiveProcess ==
    [][DirectoryWiped
       => \A m \in Managers : \A p \in 1..Len(procs[m]) :
             procs[m][p].phase # "alive"]_vars

(* C37: start() of the tunnel that passes the guard with the tunnel binary *)
(* absent sets status error, raises, spawns no process and leaves the      *)
(* handle and the endpoint empty.                                          *)
C37_MissingBinary ==
    [][(/\ last'.op = "start"
        /\ last'.m = "tunnel"
        /\ fs.cloudflared = 0
        /\ status["tunnel"] \notin {"running", "starting"})
       => /\ status'["tunnel"] = "error"
          /\ last'.raised
          /\ procs'["tunnel"] = procs["tunnel"]
          /\ process'["tunnel"] = NoProcess
          /\ tunnelUrl' = NoUrl]_vars

(* C38: when extractServerIfNeeded fails for want of the archive, the      *)
(* files on disk and the stored version tag are what they were, and the    *)
(* catch block of start() that follows changes neither.                    *)
C38_ArchiveMissingChangesNothing ==
    [][(/\ last'.op = "extractServerIfNeeded"
        /\ ~fs.zip
        /\ last'.raised)
       => /\ fs' = fs
          /\ configStore' = configStore
          /\ status'["server"] = "error"
          /\ startPc' = "none"]_vars

(* start() has just failed for want of the archive, on an installation     *)
(* that has a directory of the release before.                             *)
C38_Witness ==
    /\ last.op = "extractServerIfNeeded"
    /\ last.raised
    /\ ~fs.zip
    /\ fs.dir
    /\ fs.exe = OldVersion
    /\ configStore.serverVersion = OldVersion

(* C39: when the primary service and a quick tunnel are both running, the  *)
(* tunnel's target is the port the service was spawned with.               *)
C39_TunnelTargetsServicePort ==
    (/\ status["server"] = "running"
     /\ status["tunnel"] = "running"
     /\ process["server"] # NoProcess
     /\ process["tunnel"] # NoProcess
     /\ procs["tunnel"][process["tunnel"]].args[2] = "--url")
    => procs["tunnel"][process["tunnel"]].args[3]
          = LocalUrl(procs["server"][process["server"]].PORT)

(* C40: server:set-port stores the port exactly when it lies in            *)
(* MinPort..MaxPort; otherwise it raises and the stored port is what it    *)
(* was.  Nothing else is changed either way.                               *)
C40_SetPortValidates ==
    [][last'.op = "set-port"
       => /\ IF last'.id \in MinPort..MaxPort
             THEN /\ ~last'.raised
                  /\ configStore' = [configStore EXCEPT !.serverPort = last'.id]
             ELSE /\ last'.raised
                  /\ configStore' = configStore
          /\ port' = port
          /\ status' = status
          /\ procs' = procs]_vars

(* A port above the range has just been refused while another one was      *)
(* stored.                                                                 *)
C40_Witness ==
    /\ last.op = "set-port"
    /\ last.id > MaxPort
    /\ last.raised
    /\ configStore.serverPort = 4001

====
